---- MODULE Spec2Model ----
(***************************************************************************)
(* Box selection of units (src/main.rs): a Bevy application whose Update   *)
(* schedule holds the systems start_mouse_selection, end_mouse_selection,  *)
(* box_select, show_selection_box, set_selected_unit_material,             *)
(* set_unselected_unit_material and show_debug_shapes.                     *)
(*                                                                         *)
(* One frame of the model is:                                              *)
(*   BeginFrame     the engine's First/PreUpdate work: Events<BoxSelect>   *)
(*                  swaps its buffers, Input<MouseButton> is cleared and   *)
(*                  fed this frame's button events, the window's cursor    *)
(*                  position and the camera take this frame's values;      *)
(*   the systems    each exactly once, in any order: main() adds them as   *)
(*                  one tuple with no ordering constraint;                 *)
(*   ApplyDeferred  the schedule's closing sync point, where the Commands  *)
(*                  queued by box_select are applied to the world;         *)
(*   EndFrame       the frame is rendered and its gizmos are discarded.    *)
(*                                                                         *)
(* Lengths are in tenths of a world unit, so that the half extents 0.5 and *)
(* the unit heights 2.2 and 1.2 are integers.  The camera is modelled as   *)
(* looking straight down: a viewport point (x, y) unprojects to a ray that *)
(* starts 20 units above the ground point (7x - 6 + pan, 8y) and points    *)
(* along -Y.                                                               *)
(***************************************************************************)
EXTENDS Integers, Sequences, FiniteSets

VARIABLES
    pc,             \* "input" (between frames), "update" (systems running),
                    \* "applied" (the frame's commands applied), "panicked"
    ran,            \* the systems that have run in this frame's Update schedule
    pressed,        \* Input<MouseButton>: Left is held
    just_pressed,   \* Input<MouseButton>: Left went down this frame
    just_released,  \* Input<MouseButton>: Left went up this frame
    cursor,         \* Window::cursor_position(): None or Some(point)
    camera,         \* the camera's state this frame
    selection,      \* BoxSelectionPosition.0: None or Some(point)
    eventsOld,      \* Events<BoxSelect>: the buffer of the frame before
    eventsNew,      \* Events<BoxSelect>: the buffer of this frame
    commands,       \* box_select's Commands, queued until ApplyDeferred
    selected,       \* the entities carrying Selected
    material,       \* each unit's Handle<StandardMaterial>
    added,          \* entities the Added<Selected> filter matches at the next run
    removed,        \* RemovedComponents<Selected> events not read yet
    liveBox,        \* the selection box drawn by show_selection_box this frame
    frameStart,     \* history: the Selected set when this frame began
    release,        \* history: the drag ended by end_mouse_selection this frame
    processed,      \* history: the rectangles box_select took from its reader this frame
    dropped,        \* history: events discarded by Events::update before being read
    lastCommit      \* history: the last rectangle committed in an earlier frame, and
                    \* the camera it met

vars == <<pc, ran, pressed, just_pressed, just_released, cursor, camera, selection,
          eventsOld, eventsNew, commands, selected, material, added, removed,
          liveBox, frameStart, release, processed, dropped, lastCommit>>

\* ------------------------------------------------------------------ bounds
\* The cursor is sampled at the first NumPoints points of ViewportPoints.
NumPoints == 4
\* Button events delivered to Input<MouseButton> within one frame.
MaxButtonEvents == 2

\* ------------------------------------------------------------------ options
None == <<>>
Some(v) == <<v>>
IsSome(o) == o # <<>>
Unwrap(o) == o[1]

Min(a, b) == IF a <= b THEN a ELSE b
Max(a, b) == IF a >= b THEN a ELSE b

\* ------------------------------------------------------------------ scene
\* `ray.origin + ray.direction * 1000.0`
FarDistance == 1000

\* The four units of setup(): world position and Selectable.size (the half
\* extents of the capsule mesh's AABB), in tenths of a world unit.
Units == 1..4
UnitPosition(u) ==
    CASE u = 1 -> <<80, 22, 0>>
      [] u = 2 -> <<50, 50, 80>>
      [] u = 3 -> <<-20, 12, 30>>
      [] u = 4 -> <<-60, 12, 80>>
UnitSize(u) == IF u = 4 THEN <<10, 15, 10>> ELSE <<5, 10, 5>>

\* Viewport points the cursor can be at.  Among the first four there are two
\* rectangles of positive size ((0,0)-(1,1) and (1,1)-(2,0)), one of zero
\* height ((0,0)-(2,0)) and one of zero width ((0,0)-(0,1)).
ViewportPoints == <<<<0, 0>>, <<1, 1>>, <<2, 0>>, <<0, 1>>, <<2, 1>>, <<1, 0>>>>
Points == {ViewportPoints[i] : i \in 1..Min(NumPoints, Len(ViewportPoints))}
CursorPositions == {None} \cup {Some(p) : p \in Points}

\* The camera: whether it can unproject, and how far it has been panned.
Cameras == {[valid |-> TRUE, pan |-> 0], [valid |-> TRUE, pan |-> 210],
            [valid |-> FALSE, pan |-> 0]}
CameraHome == [valid |-> TRUE, pan |-> 0]

\* ------------------------------------------------------------------ geometry
\* Rect::from_corners taking its arguments as min and max, as given.
RectFromCornersAsGiven(p0, p1) == [min |-> p0, max |-> p1]

\* Rect::from_corners: the corners in either order, normalised to min/max.
RectFromCorners(p0, p1) ==
    [min |-> <<Min(p0[1], p1[1]), Min(p0[2], p1[2])>>,
     max |-> <<Max(p0[1], p1[1]), Max(p0[2], p1[2])>>]
\* Rect::size counting pixels inclusively.
RectSizeInclusive(r) == <<r.max[1] - r.min[1] + 1, r.max[2] - r.min[2] + 1>>
RectSize(r) == <<r.max[1] - r.min[1], r.max[2] - r.min[2]>>

\* Camera::viewport_to_world: the ray through a viewport point, or None when
\* the camera cannot unproject.
viewport_to_world(cam, point) ==
    IF cam.valid
    THEN Some([origin    |-> <<70 * point[1] - 60 + cam.pan, 200, 80 * point[2]>>,
               direction |-> <<0, -10, 0>>])
    ELSE None

\* The four corners box_select and show_selection_box unproject.
RectCorners(r) ==
    <<r.min, <<r.min[1], r.max[2]>>, r.max, <<r.max[1], r.min[2]>>>>

VecAdd(a, b) == <<a[1] + b[1], a[2] + b[2], a[3] + b[3]>>
VecScale(a, k) == <<a[1] * k, a[2] * k, a[3] * k>>

SeqMin(s, axis) == CHOOSE m \in {s[i][axis] : i \in DOMAIN s} :
                       \A i \in DOMAIN s : m <= s[i][axis]
SeqMax(s, axis) == CHOOSE m \in {s[i][axis] : i \in DOMAIN s} :
                       \A i \in DOMAIN s : m >= s[i][axis]

\* ConvexPolyhedron::from_convex_hull(points).unwrap(): the hull of the four near
\* and four far points, or None when they span no volume.  The rays of the
\* modelled camera are parallel to an axis, so the hull is the box they span.
generate_selection_collider(near, far) ==
    LET points == near \o far
        lo == <<SeqMin(points, 1), SeqMin(points, 2), SeqMin(points, 3)>>
        hi == <<SeqMax(points, 1), SeqMax(points, 2), SeqMax(points, 3)>>
    IN  IF \A a \in 1..3 : lo[a] < hi[a]
        THEN Some([lo |-> lo, hi |-> hi])
        ELSE None

aabb_collider(size) == [half_extents |-> size]
vec3_to_isometry(position) == [translation |-> position]

\* parry3d::query::intersection_test of a cuboid at `iso` with the hull.
intersection_test(iso, cuboid, collider) ==
    \A a \in 1..3 :
        /\ iso.translation[a] - cuboid.half_extents[a] <= collider.hi[a]
        /\ collider.lo[a] <= iso.translation[a] + cuboid.half_extents[a]

\* ------------------------------------------------------------------ state
Systems == {"start_mouse_selection", "end_mouse_selection", "box_select",
            "show_selection_box", "set_selected_unit_material",
            "set_unselected_unit_material", "show_debug_shapes"}

\* After App::new()...add_systems(Startup, setup): the units carry the normal
\* material and no Selected, BoxSelectionPosition is its default, no event is
\* stored, the button is up.
Init ==
    /\ pc = "input"
    /\ ran = Systems
    /\ pressed = FALSE
    /\ just_pressed = FALSE
    /\ just_released = FALSE
    /\ cursor = None
    /\ camera = CameraHome
    /\ selection = None
    /\ eventsOld = <<>>
    /\ eventsNew = <<>>
    /\ commands = <<>>
    /\ selected = {}
    /\ material = [u \in Units |-> "normal"]
    /\ added = {}
    /\ removed = {}
    /\ liveBox = None
    /\ frameStart = {}
    /\ release = None
    /\ processed = <<>>
    /\ dropped = FALSE
    /\ lastCommit = None

\* ------------------------------------------------------------------ input
\* Input::press and Input::release, applied to [pressed, just_pressed, just_released].
InputPress(i) ==
    IF i.pressed THEN i ELSE [i EXCEPT !.pressed = TRUE, !.just_pressed = TRUE]
InputRelease(i) ==
    IF i.pressed THEN [i EXCEPT !.pressed = FALSE, !.just_released = TRUE] ELSE i

RECURSIVE FeedButtons(_, _)
FeedButtons(i, evs) ==
    IF evs = <<>> THEN i
    ELSE FeedButtons(IF Head(evs) = "Pressed" THEN InputPress(i) ELSE InputRelease(i),
                     Tail(evs))

\* The button events one frame can deliver: a mouse button's transitions
\* alternate, starting with the opposite of what the button was.
ButtonEventSeqs(down) ==
    {[i \in 1..n |-> IF (i % 2 = 1) = down THEN "Released" ELSE "Pressed"] :
        n \in 0..MaxButtonEvents}

Unread(buf) == SelectSeq(buf, LAMBDA e : ~e.read)
MarkRead(buf) == [i \in DOMAIN buf |-> [buf[i] EXCEPT !.read = TRUE]]

\* The engine's work before Update: Events::<BoxSelect>::update_system swaps the
\* buffers and drops the older one, the mouse button input system clears the
\* just_* sets and feeds this frame's events, the window and the camera take
\* this frame's values, last frame's gizmos are gone.
BeginFrame ==
    /\ pc = "input"
    /\ \E evs \in ButtonEventSeqs(pressed), c \in CursorPositions, cam \in Cameras :
         LET i == FeedButtons([pressed |-> pressed, just_pressed |-> FALSE,
                               just_released |-> FALSE], evs)
         IN  /\ pressed' = i.pressed
             /\ just_pressed' = i.just_pressed
             /\ just_released' = i.just_released
             /\ cursor' = c
             /\ camera' = cam
    /\ eventsOld' = eventsNew
    /\ eventsNew' = <<>>
    /\ dropped' = (dropped \/ Unread(eventsOld) # <<>>)
    /\ frameStart' = selected
    /\ ran' = {}
    /\ pc' = "update"
    /\ UNCHANGED <<selection, commands, selected, material, added, removed,
                   liveBox, release, processed, lastCommit>>

\* main() adds the systems as one tuple with no ordering constraint, so the
\* executor may run them in any order.  Systems that share no data commute, and
\* only the order within each group of systems that do share data is explored:
\*   the feedback systems share the materials (and read what ApplyDeferred wrote
\*     at the end of the frame before: box_select's commands are deferred, so
\*     nothing a system of this frame does reaches them);
\*   show_debug_shapes reads the units' transforms and sizes only;
\*   the selection systems share BoxSelectionPosition and Events<BoxSelect>.
Schedule == <<{"set_selected_unit_material", "set_unselected_unit_material"},
              {"show_debug_shapes"},
              {"start_mouse_selection", "end_mouse_selection", "box_select",
               "show_selection_box"}>>

Runs(system) ==
    /\ pc = "update"
    /\ system \notin ran
    /\ \A g \in DOMAIN Schedule :
          system \in Schedule[g] => \A h \in 1..(g - 1) : Schedule[h] \subseteq ran
Ran(system) == ran' = ran \cup {system}

\* ------------------------------------------------------------------ systems
\* start_mouse_selection testing `pressed` where the code tests `just_pressed`.
start_mouse_selection_while_pressed ==
    /\ Runs("start_mouse_selection")
    /\ Ran("start_mouse_selection")
    /\ selection' = IF pressed THEN cursor ELSE selection
    /\ UNCHANGED <<pc, pressed, just_pressed, just_released, cursor, camera,
                   eventsOld, eventsNew, commands, selected, material, added,
                   removed, liveBox, frameStart, release, processed, dropped,
                   lastCommit>>

\* start_mouse_selection clearing the selection on a press.
start_mouse_selection_deselecting ==
    /\ Runs("start_mouse_selection")
    /\ Ran("start_mouse_selection")
    /\ selection' = IF just_pressed THEN cursor ELSE selection
    /\ selected' = IF just_pressed THEN {} ELSE selected
    /\ UNCHANGED <<pc, pressed, just_pressed, just_released, cursor, camera,
                   eventsOld, eventsNew, commands, material, added,
                   removed, liveBox, frameStart, release, processed, dropped,
                   lastCommit>>

start_mouse_selection ==
    /\ Runs("start_mouse_selection")
    /\ Ran("start_mouse_selection")
    /\ selection' = IF just_pressed THEN cursor ELSE selection
    /\ UNCHANGED <<pc, pressed, just_pressed, just_released, cursor, camera,
                   eventsOld, eventsNew, commands, selected, material, added,
                   removed, liveBox, frameStart, release, processed, dropped, lastCommit>>

\* ReleaseEvents taking the viewport's origin for a cursor outside the window.
ReleaseEventsDefaultCursor(start, cur) ==
    LET rect == RectFromCorners(IF IsSome(cur) THEN Unwrap(cur) ELSE <<0, 0>>, start)
    IN  IF RectSize(rect)[1] > 0 /\ RectSize(rect)[2] > 0
        THEN <<[rect |-> rect, read |-> FALSE]>>
        ELSE <<>>

\* ReleaseEvents without the size test: a rectangle of any size is sent.
ReleaseEventsAnySize(start, cur) ==
    IF IsSome(cur)
    THEN <<[rect |-> RectFromCorners(Unwrap(cur), start), read |-> FALSE]>>
    ELSE <<>>

\* ReleaseEvents sending the rectangle twice.
ReleaseEventsTwice(start, cur) ==
    IF IsSome(cur)
    THEN LET rect == RectFromCorners(Unwrap(cur), start)
         IN  IF RectSize(rect)[1] > 0 /\ RectSize(rect)[2] > 0
             THEN <<[rect |-> rect, read |-> FALSE], [rect |-> rect, read |-> FALSE]>>
             ELSE <<>>
    ELSE <<>>

\* ReleaseEvents with `||` for `&&` in the size test.
ReleaseEventsEitherSide(start, cur) ==
    IF IsSome(cur)
    THEN LET rect == RectFromCorners(Unwrap(cur), start)
         IN  IF RectSize(rect)[1] > 0 \/ RectSize(rect)[2] > 0
             THEN <<[rect |-> rect, read |-> FALSE]>>
             ELSE <<>>
    ELSE <<>>

\* What end_mouse_selection sends for a drag from `start` released at `cur`.
ReleaseEvents(start, cur) ==
    IF IsSome(cur)
    THEN LET rect == RectFromCorners(Unwrap(cur), start)
         IN  IF RectSize(rect)[1] > 0 /\ RectSize(rect)[2] > 0
             THEN <<[rect |-> rect, read |-> FALSE]>>
             ELSE <<>>
    ELSE <<>>

end_mouse_selection ==
    /\ Runs("end_mouse_selection")
    /\ Ran("end_mouse_selection")
    /\ IF just_released /\ IsSome(selection)
       THEN /\ eventsNew' = eventsNew \o ReleaseEvents(Unwrap(selection), cursor)
            /\ selection' = None
            /\ release' = Some([start |-> Unwrap(selection), cursor |-> cursor])
       ELSE UNCHANGED <<eventsNew, selection, release>>
    /\ UNCHANGED <<pc, pressed, just_pressed, just_released, cursor, camera,
                   eventsOld, commands, selected, material, added, removed,
                   liveBox, frameStart, processed, dropped, lastCommit>>

\* The rays through the four corners of a rectangle, each None or Some(ray).
CornerRays(cam, rect) ==
    [i \in 1..4 |-> viewport_to_world(cam, RectCorners(rect)[i])]

\* The selection volume of a rectangle, for a camera that unprojects its corners.
SelectionCollider(cam, rect) ==
    LET rays == [i \in 1..4 |-> Unwrap(CornerRays(cam, rect)[i])]
        near == [i \in 1..4 |-> rays[i].origin]
        far  == [i \in 1..4 |->
                    VecAdd(rays[i].origin, VecScale(rays[i].direction, FarDistance))]
    IN  generate_selection_collider(near, far)

\* The selectables box_select inserts Selected on, for a valid volume.
Hits(collider) ==
    {u \in Units : intersection_test(vec3_to_isometry(UnitPosition(u)),
                                     aabb_collider(UnitSize(u)), collider)}

\* The body of box_select's loop over the events its reader yields: for each, a
\* remove of Selected for every entity of the `selected` query (the world as it
\* was when the system started), then the unwraps, then an insert per hit.
\* Yields the commands queued, the events taken, and whether an unwrap panicked.
RECURSIVE BoxSelectLoop(_, _, _, _, _)
BoxSelectLoop(rects, cam, current, cmds, taken) ==
    IF rects = <<>>
    THEN [panic |-> FALSE, commands |-> cmds, taken |-> taken]
    ELSE LET rect == Head(rects)
             removes == cmds \o <<[op |-> "remove", entities |-> current]>>
         IN  IF \E i \in 1..4 : ~IsSome(CornerRays(cam, rect)[i])
             THEN [panic |-> TRUE, commands |-> removes, taken |-> Append(taken, rect)]
             ELSE IF ~IsSome(SelectionCollider(cam, rect))
             THEN [panic |-> TRUE, commands |-> removes, taken |-> Append(taken, rect)]
             ELSE BoxSelectLoop(Tail(rects), cam, current,
                      removes \o <<[op |-> "insert",
                                    entities |-> Hits(Unwrap(SelectionCollider(cam, rect)))]>>,
                      Append(taken, rect))

EventRects(buf) == [i \in DOMAIN buf |-> buf[i].rect]

box_select ==
    /\ Runs("box_select")
    /\ Ran("box_select")
    /\ LET run == BoxSelectLoop(EventRects(Unread(eventsOld) \o Unread(eventsNew)),
                                camera, selected, commands, <<>>)
       IN  /\ commands' = run.commands
           /\ processed' = run.taken
           /\ pc' = IF run.panic THEN "panicked" ELSE pc
    /\ eventsOld' = MarkRead(eventsOld)
    /\ eventsNew' = MarkRead(eventsNew)
    /\ UNCHANGED <<pressed, just_pressed, just_released, cursor, camera, selection,
                   selected, material, added, removed, liveBox, frameStart,
                   release, dropped, lastCommit>>

set_selected_unit_material ==
    /\ Runs("set_selected_unit_material")
    /\ Ran("set_selected_unit_material")
    /\ material' = [u \in Units |->
                       IF u \in added /\ u \in selected THEN "selected" ELSE material[u]]
    /\ added' = {}
    /\ UNCHANGED <<pc, pressed, just_pressed, just_released, cursor, camera,
                   selection, eventsOld, eventsNew, commands, selected, removed,
                   liveBox, frameStart, release, processed, dropped, lastCommit>>

set_unselected_unit_material ==
    /\ Runs("set_unselected_unit_material")
    /\ Ran("set_unselected_unit_material")
    /\ material' = [u \in Units |-> IF u \in removed THEN "normal" ELSE material[u]]
    /\ removed' = {}
    /\ UNCHANGED <<pc, pressed, just_pressed, just_released, cursor, camera,
                   selection, eventsOld, eventsNew, commands, selected, added,
                   liveBox, frameStart, release, processed, dropped, lastCommit>>

show_selection_box ==
    /\ Runs("show_selection_box")
    /\ Ran("show_selection_box")
    /\ IF IsSome(selection) /\ IsSome(cursor)
       THEN LET rect == RectFromCorners(Unwrap(selection), Unwrap(cursor))
            IN  IF \E i \in 1..4 : ~IsSome(CornerRays(camera, rect)[i])
                THEN pc' = "panicked" /\ liveBox' = liveBox
                ELSE pc' = pc /\ liveBox' = Some(rect)
       ELSE UNCHANGED <<pc, liveBox>>
    /\ UNCHANGED <<pressed, just_pressed, just_released, cursor, camera, selection,
                   eventsOld, eventsNew, commands, selected, material, added,
                   removed, frameStart, release, processed, dropped, lastCommit>>

\* Draws the outline of every selectable; reads transforms and sizes only.
show_debug_shapes ==
    /\ Runs("show_debug_shapes")
    /\ Ran("show_debug_shapes")
    /\ UNCHANGED <<pc, pressed, just_pressed, just_released, cursor, camera,
                   selection, eventsOld, eventsNew, commands, selected, material,
                   added, removed, liveBox, frameStart, release, processed, dropped, lastCommit>>

\* ------------------------------------------------------------------ commands
\* The world after the queued commands, in the order they were queued.
\* remove::<Selected> on an entity that carries it drops the component and
\* records a RemovedComponents event; insert(Selected) on an entity that lacks
\* it adds the component with a fresh added tick.
\* ApplyCommand losing the removes.
ApplyCommandInsertOnly(c, world) ==
    IF c.op = "remove"
    THEN world
    ELSE [selected |-> world.selected \cup c.entities,
          added    |-> world.added \cup (c.entities \ world.selected),
          removed  |-> world.removed]

ApplyCommand(c, world) ==
    IF c.op = "remove"
    THEN [selected |-> world.selected \ c.entities,
          added    |-> world.added \ c.entities,
          removed  |-> world.removed \cup (c.entities \cap world.selected)]
    ELSE [selected |-> world.selected \cup c.entities,
          added    |-> world.added \cup (c.entities \ world.selected),
          removed  |-> world.removed]

RECURSIVE ApplyCommands(_, _)
ApplyCommands(cmds, world) ==
    IF cmds = <<>> THEN world
    ELSE ApplyCommands(Tail(cmds), ApplyCommand(Head(cmds), world))

\* The sync point closing the Update schedule, once every system has run.
ApplyDeferred ==
    /\ pc = "update"
    /\ ran = Systems
    /\ LET world == ApplyCommands(commands, [selected |-> selected, added |-> added,
                                             removed |-> removed])
       IN  /\ selected' = world.selected
           /\ added' = world.added
           /\ removed' = world.removed
    /\ commands' = <<>>
    /\ pc' = "applied"
    /\ UNCHANGED <<ran, pressed, just_pressed, just_released, cursor, camera,
                   selection, eventsOld, eventsNew, material, liveBox, frameStart,
                   release, processed, dropped, lastCommit>>

\* The rest of the frame after Update: the gizmos drawn are rendered and
\* discarded; the frame's history is forgotten, but for its last commit.
EndFrame ==
    /\ pc = "applied"
    /\ liveBox' = None
    /\ release' = None
    /\ processed' = <<>>
    /\ pc' = "input"
    /\ frameStart' = selected
    /\ lastCommit' = IF processed = <<>> THEN lastCommit
                     ELSE Some([rect |-> processed[Len(processed)], camera |-> camera])
    /\ UNCHANGED <<ran, pressed, just_pressed, just_released, cursor, camera,
                   selection, eventsOld, eventsNew, commands, selected, material,
                   added, removed, dropped>>

Next ==
    \/ BeginFrame
    \/ start_mouse_selection
    \/ end_mouse_selection
    \/ box_select
    \/ show_selection_box
    \/ set_selected_unit_material
    \/ set_unselected_unit_material
    \/ show_debug_shapes
    \/ ApplyDeferred
    \/ EndFrame

Spec == Init /\ [][Next]_vars

\* ------------------------------------------------------------------ claims
\* The frame's systems have all run and its commands are applied.
FrameDone == pc = "applied"

\* The drag end_mouse_selection ended this frame, if any.
Released == IsSome(release)
ReleasedInWindow == Released /\ IsSome(Unwrap(release).cursor)
ReleaseRect == RectFromCorners(Unwrap(Unwrap(release).cursor), Unwrap(release).start)
ReleaseDegenerate == RectSize(ReleaseRect)[1] = 0 \/ RectSize(ReleaseRect)[2] = 0
\* A click: press and release at the same viewport point.
Clicked == ReleasedInWindow /\ Unwrap(Unwrap(release).cursor) = Unwrap(release).start
ClickPoint == Unwrap(release).start

SentRects == EventRects(eventsNew)

\* The units a rectangle selects under a camera that unprojects it.
RectHits(cam, rect) == Hits(Unwrap(SelectionCollider(cam, rect)))

\* The units whose cuboid the ray through a viewport point passes through, and
\* how far along the ray each is entered.
RayHitsUnit(ray, u) ==
    \A a \in 1..3 :
        LET lo == UnitPosition(u)[a] - UnitSize(u)[a]
            hi == UnitPosition(u)[a] + UnitSize(u)[a]
            end == ray.origin[a] + ray.direction[a] * FarDistance
        IN  /\ Min(ray.origin[a], end) <= hi
            /\ lo <= Max(ray.origin[a], end)
RayDistance(ray, u) ==
    LET d(a) == IF ray.direction[a] < 0
                THEN ray.origin[a] - (UnitPosition(u)[a] + UnitSize(u)[a])
                ELSE IF ray.direction[a] > 0
                THEN (UnitPosition(u)[a] - UnitSize(u)[a]) - ray.origin[a]
                ELSE 0
    IN  Max(0, Max(d(1), Max(d(2), d(3))))
UnitsUnder(cam, point) ==
    {u \in Units : RayHitsUnit(Unwrap(viewport_to_world(cam, point)), u)}
NearestUnder(cam, point) ==
    LET ray == Unwrap(viewport_to_world(cam, point))
    IN  CHOOSE u \in UnitsUnder(cam, point) :
            \A v \in UnitsUnder(cam, point) :
                \/ RayDistance(ray, u) < RayDistance(ray, v)
                \/ RayDistance(ray, u) = RayDistance(ray, v) /\ u <= v

\* C1: when box_select has taken exactly one BoxSelect event in a frame and the
\* frame's commands are applied, the entities carrying Selected are exactly the
\* selectables whose cuboid meets the selection volume of that rectangle.
C1_BoxCommitReplaces ==
    (FrameDone /\ Len(processed) = 1 /\ camera.valid)
        => selected = RectHits(camera, processed[1])

\* C1 witness: a commit that drops a unit selected before and selects others.
C1_Witness ==
    /\ FrameDone /\ Len(processed) = 1
    /\ frameStart \ selected # {}
    /\ selected \ frameStart # {}

\* C1 witness of the empty case: a commit that hits nothing empties a selection.
C1_WitnessEmpty ==
    FrameDone /\ Len(processed) = 1 /\ frameStart # {} /\ selected = {}

\* C2 as claimed: every release that ends a drag produces exactly one query.
C2_EveryReleaseOneQuery ==
    (FrameDone /\ Released) => Len(SentRects) = 1

\* C2 as amended: a release that ends a drag sends the one normalised rectangle
\* when the cursor is in the window and the rectangle has positive width and
\* height, and sends nothing otherwise; a frame without such a release sends
\* nothing.
C2_ReleaseSendsRectOrNothing ==
    (pc # "input" /\ "end_mouse_selection" \in ran)
        => SentRects = IF ReleasedInWindow /\ ~ReleaseDegenerate
                       THEN <<ReleaseRect>>
                       ELSE <<>>

\* C2 witness: a drag ended inside the window with a degenerate rectangle, and
\* no query came of it.
C2_Witness ==
    FrameDone /\ ReleasedInWindow /\ ReleaseDegenerate /\ SentRects = <<>>

\* C2 witness of the other branch: a drag that sent its rectangle.
C2_WitnessRect ==
    FrameDone /\ ReleasedInWindow /\ ~ReleaseDegenerate /\ SentRects = <<ReleaseRect>>

\* C3 as claimed: after a click with no unit under it the Selected set is empty
\* (stated for the frames in which box_select took no event of an earlier drag).
C3_ClickOnEmptyClears ==
    (/\ FrameDone /\ Clicked /\ camera.valid
     /\ UnitsUnder(camera, ClickPoint) = {}
     /\ processed = <<>>)
        => selected = {}

\* C3 as amended: a click with no unit under it sends no BoxSelect event, and
\* unless box_select took an event of an earlier drag in that frame the
\* Selected set is after the frame what it was before it.
C3_ClickOnEmptyKeeps ==
    (FrameDone /\ Clicked /\ camera.valid /\ UnitsUnder(camera, ClickPoint) = {})
        => /\ SentRects = <<>>
           /\ processed = <<>> => selected = frameStart

\* C3 witness: a click on empty space with units selected, which stay selected.
C3_Witness ==
    /\ FrameDone /\ Clicked /\ camera.valid
    /\ UnitsUnder(camera, ClickPoint) = {}
    /\ processed = <<>>
    /\ frameStart # {}
    /\ selected = frameStart

\* The step of end_mouse_selection that ends a drag inside the window with a
\* rectangle of zero width or zero height.
DegenerateReleaseStep ==
    /\ pc = "update"
    /\ "end_mouse_selection" \notin ran
    /\ "end_mouse_selection" \in ran'
    /\ just_released /\ IsSome(selection) /\ IsSome(cursor)
    /\ LET size == RectSize(RectFromCorners(Unwrap(cursor), Unwrap(selection)))
       IN  size[1] = 0 \/ size[2] = 0

\* C4: a release whose rectangle has zero width or zero height sends no
\* BoxSelect event, queues no command, leaves the Selected set as it is and
\* returns the drag state to Idle.
C4_DegenerateReleaseSelectsNothing ==
    [][DegenerateReleaseStep =>
          /\ eventsNew' = eventsNew
          /\ eventsOld' = eventsOld
          /\ commands' = commands
          /\ selected' = selected
          /\ selection' = None]_vars

\* C4 witness: a drag along one row of the viewport (zero height, not a click)
\* has ended with units selected; nothing was sent and they are still selected.
C4_Witness ==
    /\ FrameDone /\ ReleasedInWindow /\ ReleaseDegenerate /\ ~Clicked
    /\ SentRects = <<>>
    /\ selection = None
    /\ frameStart # {}
    /\ selected = frameStart

\* C5 as claimed: after a click the Selected set is exactly the nearest unit
\* under the click point, the first spawned among equally near ones (stated for
\* the frames in which box_select took no event of an earlier drag).
C5_ClickSelectsNearest ==
    (/\ FrameDone /\ Clicked /\ camera.valid
     /\ UnitsUnder(camera, ClickPoint) # {}
     /\ processed = <<>>)
        => selected = {NearestUnder(camera, ClickPoint)}

\* C5 as amended: a click on a unit sends no BoxSelect event, and unless
\* box_select took an event of an earlier drag in that frame the Selected set
\* is after the frame what it was before it: the unit under the click point is
\* not selected by the click.
C5_ClickSelectsNothing ==
    (FrameDone /\ Clicked /\ camera.valid /\ UnitsUnder(camera, ClickPoint) # {})
        => /\ SentRects = <<>>
           /\ processed = <<>> => selected = frameStart

\* C5 witness: a click on a unit that is not selected, and is not selected after.
C5_Witness ==
    /\ FrameDone /\ Clicked /\ camera.valid
    /\ UnitsUnder(camera, ClickPoint) # {}
    /\ processed = <<>>
    /\ NearestUnder(camera, ClickPoint) \notin selected

\* C6: when the rectangle committed in a frame is the rectangle of the commit
\* before it and meets the same camera, the Selected set after the second commit
\* is the Selected set after the first.
C6_CommitIdempotent ==
    (/\ FrameDone /\ Len(processed) = 1
     /\ IsSome(lastCommit)
     /\ Unwrap(lastCommit) = [rect |-> processed[1], camera |-> camera])
        => selected = frameStart

\* C7: when box_select has an event to process and the camera cannot unproject,
\* the query is skipped: the application keeps running and the Selected set is
\* after the frame what it was before it.
C7_DegenerateCameraSkipsQuery ==
    ("box_select" \in ran /\ processed # <<>> /\ ~camera.valid)
        => /\ pc # "panicked"
           /\ FrameDone => selected = frameStart

\* C8: no input drives box_select, generate_selection_collider or
\* show_selection_box into a panic.
C8_NeverPanics == pc # "panicked"

\* C9: in the frame whose release sent a rectangle that box_select took in that
\* same frame, the feedback systems have seen the updated Selected set: at the
\* end of the frame a unit shows the selected material exactly if it carries
\* Selected.
C9_FeedbackSameFrame ==
    (FrameDone /\ SentRects # <<>> /\ processed = SentRects)
        => \A u \in Units : material[u] = "selected" <=> u \in selected

\* C10: the Selected set changes only where the commands box_select queued
\* while processing an event are applied; no system changes it, and a frame in
\* which box_select took no event leaves it as it was.
C10_OnlyApplierMutatesSelected ==
    [][selected' # selected =>
          /\ pc = "update" /\ pc' = "applied"
          /\ processed # <<>>
          /\ commands # <<>>]_vars

\* C10 witness: a frame in which a drag ended and box_select took no event has
\* finished, with the units selected before still selected.
C10_Witness ==
    /\ FrameDone /\ Released /\ processed = <<>>
    /\ selected # {}
    /\ selected = frameStart

\* What a frame in which box_select took two events leaves selected: the hits
\* of the second, and the hits of the first that were not selected before.
TwoCommitsOneFrame ==
    (FrameDone /\ Len(processed) = 2 /\ camera.valid)
        => selected = RectHits(camera, processed[2])
                        \cup (RectHits(camera, processed[1]) \ frameStart)

\* The BoxSelect events stored that box_select has not taken yet.
Unconsumed == Unread(eventsOld) \o Unread(eventsNew)

\* C11: at most one emitted BoxSelect region is unconsumed at any time, and no
\* region is dropped before box_select has taken it.
C11_NeverQueued == Len(Unconsumed) <= 1 /\ ~dropped

\* What does hold of the events: none is dropped unread, none stays unread
\* past the frame after the one that sent it, and at most two wait at once.
EventsTakenOnce ==
    /\ ~dropped
    /\ Len(Unconsumed) <= 2
    /\ "box_select" \in ran => Unread(eventsOld) = <<>>

\* The steps of the two mouse systems.
StartStep ==
    /\ pc = "update"
    /\ "start_mouse_selection" \notin ran
    /\ "start_mouse_selection" \in ran'
EndStep ==
    /\ pc = "update"
    /\ "end_mouse_selection" \notin ran
    /\ "end_mouse_selection" \in ran'

\* C12: the rectangle a release sends is the rectangle the reverse drag (started
\* at the release point, released at the start point) would send, and every
\* rectangle stored has min <= max on both axes.
C12_RectOrderIndependent ==
    /\ (pc # "input" /\ "end_mouse_selection" \in ran /\ ReleasedInWindow)
          => eventsNew = ReleaseEvents(Unwrap(Unwrap(release).cursor),
                                       Some(Unwrap(release).start))
                \/ eventsNew = MarkRead(ReleaseEvents(Unwrap(Unwrap(release).cursor),
                                                      Some(Unwrap(release).start)))
    /\ \A r \in {SentRects[i] : i \in DOMAIN SentRects}
                \cup {EventRects(eventsOld)[i] : i \in DOMAIN eventsOld} :
           r.min[1] <= r.max[1] /\ r.min[2] <= r.max[2]

\* C12 witness: a drag released left of and above its start point has sent its
\* rectangle.
C12_Witness ==
    /\ FrameDone /\ ReleasedInWindow /\ SentRects # <<>>
    /\ Unwrap(Unwrap(release).cursor)[1] < Unwrap(release).start[1]
    /\ Unwrap(Unwrap(release).cursor)[2] < Unwrap(release).start[2]

\* C13: BoxSelectionPosition is written only by start_mouse_selection in a frame
\* with a press and by end_mouse_selection in a frame with a release; a frame
\* that brings cursor movement only leaves it as it is.
C13_OnlyPressAndReleaseWrite ==
    [][selection' # selection =>
          \/ StartStep /\ just_pressed
          \/ EndStep /\ just_released]_vars

\* C13 witness: a frame without press or release has finished while dragging,
\* with the cursor away from the stored start point, and the live box drawn.
C13_Witness ==
    /\ FrameDone /\ ~just_pressed /\ ~just_released
    /\ IsSome(selection) /\ IsSome(cursor) /\ cursor # selection
    /\ liveBox = Some(RectFromCorners(Unwrap(selection), Unwrap(cursor)))

\* C14: a release that ends a drag with the cursor outside the window sets the
\* state to Idle, sends no event, queues no command and leaves Selected alone;
\* a press with the cursor outside the window leaves the state Idle, and a
\* release met in Idle sends nothing.
C14_NoCursorCancels ==
    [][/\ (EndStep /\ just_released /\ IsSome(selection) /\ ~IsSome(cursor))
            => /\ selection' = None
               /\ eventsNew' = eventsNew
               /\ commands' = commands
               /\ selected' = selected
       /\ (StartStep /\ just_pressed /\ ~IsSome(cursor)) => selection' = None
       /\ (EndStep /\ ~IsSome(selection))
            => eventsNew' = eventsNew /\ selection' = None]_vars

\* C14 witness: a drag was released with the cursor outside the window while
\* units were selected; nothing was sent and they are still selected.
C14_Witness ==
    /\ FrameDone /\ Released /\ ~ReleasedInWindow
    /\ SentRects = <<>>
    /\ selection = None
    /\ frameStart # {}
    /\ selected = frameStart

\* C15: at the end of every frame the drag-start point is present only if the
\* primary button is held, and no live box was drawn with the button up.
C15_DraggingOnlyWhileHeld ==
    FrameDone => /\ IsSome(selection) => pressed
                 /\ IsSome(liveBox) => pressed \/ just_released

\* C16: once the commands of a commit are applied and both feedback systems have
\* run in the frame after it, a unit shows the selected material exactly if it
\* carries Selected.
C16_HighlightAgrees ==
    (/\ pc = "update"
     /\ {"set_selected_unit_material", "set_unselected_unit_material"} \subseteq ran)
        => \A u \in Units : material[u] = "selected" <=> u \in selected

====
